---- MODULE Spec2Model ----
(***************************************************************************)
(* Model of bond_default_analysis.py: the q-alpha Monte-Carlo default      *)
(* estimator q_alpha, the guard of main in front of it, and the per-day    *)
(* loop (kernel evaluation, drift, volatility, removal of defaulted        *)
(* paths).                                                                 *)
(*                                                                         *)
(* Numbers.  Prices, shocks and noise accumulators are floats in the code; *)
(* here they are integers, and the two fractional inputs (q and the        *)
(* recovery rate r) are pairs <<numerator, denominator>> compared by       *)
(* cross-multiplication, so every comparison the code makes is exact.      *)
(* Time is counted in steps of dt: dt = t / days = 1 / 365 year, and the   *)
(* grid entry k * dt is the integer k.  Yields are multiples of the number *)
(* of days per year, so that y * dt is an integer.                         *)
(*                                                                         *)
(* The closed-form kernel (gamma functions and real powers) is not         *)
(* computed.  What is kept of it: where it divides by zero (q = 1, q = 3), *)
(* that it returns one value per live path, and that for each path the     *)
(* product kernel ** ((1 - q) / 2) * N(0, dt) can be any real of either    *)
(* sign; the model draws that product from Shocks.  The positive factor    *)
(* t[iter] ** ((1 - q) / (2 * (3 - q))) of sigma_factor is taken as 1.     *)
(* IEEE infinities and not-a-numbers are not represented.                  *)
(***************************************************************************)
EXTENDS Integers, Sequences, FiniteSets

\* Number of Monte-Carlo paths (1000 in the code).
NPaths == 2
\* Days per year of horizon (365 in the code).
DaysPerYear == 2

\* Largest horizon, in years, for which the time grid alone is examined.
MaxHorizon == 4

\* Inputs of a call.  Fractions are <<numerator, denominator>>.
Prices == {-2, 0, 2}
Yields == {k * DaysPerYear : k \in {-2, -1, 0, 1}}
RecoveryRates == {<<0, 1>>, <<1, 2>>, <<1, 1>>}
Kurtoses == {<<1, 2>>, <<1, 1>>, <<3, 2>>, <<3, 1>>}
Alphas == {0, 1}
Sigmas == {0, 1}
Horizons == {-1, 0, 1}
\* Values of kernel ** ((1 - q) / 2) * randn * sqrt(dt) for one path.
Shocks == {-1, 0, 1}

VARIABLES
    args,            \* the arguments of the call: p, y, r, q, alpha, sigma, t
    pc,              \* position: main, q_alpha, drift, vol, remove, done, error, exit
    raised,          \* the exception raised, "" if none
    r,               \* default threshold r * p, a fraction
    days,            \* number of simulated days
    dt,              \* timestep, a fraction of a year
    npaths,          \* live-path counter
    npaths_initial,  \* path count at the start
    pre_prices,      \* row iter of the price matrix, one column per live path
    post_prices,     \* fluctuating prices, one per live path
    omega,           \* noise accumulator, one per live path
    num_defaults,    \* running count of defaulted paths
    t,               \* elapsed-time grid, in steps of dt
    iter,            \* number of days begun so far minus one while in a day
    t_iter,          \* the grid entry read for the current day
    prob_of_default  \* the returned fraction, <<>> before the return

vars == <<args, pc, raised, r, days, dt, npaths, npaths_initial, pre_prices,
          post_prices, omega, num_defaults, t, iter, t_iter, prob_of_default>>

locals == <<r, days, dt, npaths, npaths_initial, pre_prices, post_prices,
            omega, num_defaults, t, iter, t_iter>>

----------------------------------------------------------------------------
\* Fractions

\* x < f for an integer x and a fraction f with positive denominator.
IntLess(x, f) == x * f[2] < f[1]

FracLeqOne(f) == f[1] <= f[2]
FracEq(f, n) == f[1] = n * f[2]

\* b ** e for a natural exponent e.
RECURSIVE Pow(_, _)
Pow(b, e) == IF e = 0 THEN 1 ELSE b * Pow(b, e - 1)

\* Smallest integer >= a / b, for b > 0.
CeilDiv(a, b) == -((-a) \div b)

----------------------------------------------------------------------------
\* numpy helpers

\* np.zeros(n) + v
np_full(n, v) == [i \in 1..n |-> v]

\* np.delete taken as "drop as many entries as there are indices", from the end.
np_delete_tail(seq, idx) ==
    SubSeq(seq, 1, Len(seq) - Cardinality(idx \cap DOMAIN seq))

\* np.arange(start, stop, step): ceil((stop - start) / step) entries,
\* start + k * step for k = 0, 1, ...  (The quotient is exact here; numpy
\* takes it in floating point.)
np_arange(start, stop, step) ==
    LET n == CeilDiv(stop - start, step)
    IN  [k \in 1..(IF n > 0 THEN n ELSE 0) |-> start + (k - 1) * step]

\* np.delete(seq, idx): seq without the positions in idx, order kept.
np_delete(seq, idx) ==
    LET F[k \in 0..Len(seq)] ==
            IF k = 0 THEN <<>>
            ELSE IF k \in idx THEN F[k - 1]
            ELSE Append(F[k - 1], seq[k])
    IN  F[Len(seq)]

\* The comparison taken as "at or below the threshold".
is_defaulted_leq(row, thr) == {i \in DOMAIN row : row[i] * thr[2] <= thr[1]}

\* Only the first position below the threshold (argmax in place of nonzero).
is_defaulted_first(row, thr) ==
    LET below == {i \in DOMAIN row : IntLess(row[i], thr)}
    IN  {i \in below : \A k \in below : i <= k}

\* np.nonzero(row < r)[0]: the positions whose price is below the threshold.
is_defaulted(row, thr) == {i \in DOMAIN row : IntLess(row[i], thr)}

----------------------------------------------------------------------------
\* Pieces of q_alpha

\* main: "if q <= 1: print(...); exit()".
main_rejects(q) == FracLeqOne(q)

\* closed_form_price divides by q - 1 and by 3 - q.
closed_form_price_raises(q) == FracEq(q, 1) \/ FracEq(q, 3)

\* r = r * p
threshold(rate, p) == <<rate[1] * p, rate[2]>>

\* The grid taken as np.arange(0, t, dt): it starts at 0, not at dt.
time_grid_from_zero(horizon, ndays) == np_arange(0, ndays, 1)

\* t = np.arange(dt, t + 1, dt), in steps of dt: dt is 1 step and t + 1
\* years are (t + 1) * days / t steps.
time_grid(horizon, ndays) == np_arange(1, ((horizon + 1) * ndays) \div horizon, 1)

\* The drift subtracted instead of added.
drift_down(prices, y, step) ==
    [i \in DOMAIN prices |-> prices[i] - ((y * step[1]) \div step[2]) * prices[i]]

\* post_prices += y * dt * post_prices
drift(prices, y, step) ==
    [i \in DOMAIN prices |-> prices[i] + ((y * step[1]) \div step[2]) * prices[i]]

\* sigma_factor = sigma * t[iter] ** ((1 - q) / (2 * (3 - q)))
sigma_factor(sigma, tk, q) == sigma

\* vol_lhs = sigma_factor * p ** (1 - alpha) * post_prices ** alpha
vol_lhs(prices, sf, p, alpha) ==
    [i \in DOMAIN prices |-> sf * Pow(p, 1 - alpha) * Pow(prices[i], alpha)]

\* post_prices += vol_lhs * vol_rhs
volatility(prices, lhs, rhs) ==
    [i \in DOMAIN prices |-> prices[i] + lhs[i] * rhs[i]]

\* omega += updated_price ** ((1 - q) / 2) * adj_random_matrix
accumulate(om, rhs) == [i \in DOMAIN om |-> om[i] + rhs[i]]

\* Every path counted on a day with a default, not only the defaulted ones.
count_defaults_all(n, idx) == n + NPaths

\* num_defaults += len(is_defaulted[0])
count_defaults(n, idx) == n + Cardinality(idx)

\* The live-path counter left as it was.
live_paths_kept(n, idx) == n

\* npaths = npaths - len(is_defaulted[0])
live_paths(n, idx) == n - Cardinality(idx)

\* The quotient taken over the live-path counter, not the saved initial count.
probability_live(n, total) == <<n, npaths>>

\* prob_of_default = num_defaults / npaths_initial
probability(n, total) == <<n, total>>

----------------------------------------------------------------------------
\* State machine

\* The module has two ways in: the script (main, which checks q and calls
\* q_alpha through sensitivity) and a call of q_alpha by an importer.
Init ==
    /\ args \in [p : Prices, y : Yields, r : RecoveryRates, q : Kurtoses,
                 alpha : Alphas, sigma : Sigmas, t : Horizons]
    /\ pc \in {"main", "q_alpha"}
    /\ raised = ""
    /\ r = <<0, 1>>
    /\ days = 0
    /\ dt = <<0, 1>>
    /\ npaths = 0
    /\ npaths_initial = 0
    /\ pre_prices = <<>>
    /\ post_prices = <<>>
    /\ omega = <<>>
    /\ num_defaults = 0
    /\ t = <<>>
    /\ iter = 0
    /\ t_iter = 0
    /\ prob_of_default = <<>>

Raise(e) ==
    /\ pc' = "error"
    /\ raised' = e

\* main, lines 182-195: the guard on q, then the call (through sensitivity).
Main ==
    /\ pc = "main"
    /\ pc' = IF main_rejects(args.q) THEN "exit" ELSE "q_alpha"
    /\ UNCHANGED <<args, raised, locals, prob_of_default>>

\* q_alpha, lines 44-66: everything before the loop.
Initialise ==
    /\ pc = "q_alpha"
    /\ LET ndays == DaysPerYear * args.t
       IN  IF ndays = 0
           THEN /\ Raise("ZeroDivisionError")     \* dt = t / days
                /\ r' = threshold(args.r, args.p)
                /\ days' = ndays
                /\ npaths' = NPaths
                /\ UNCHANGED <<dt, npaths_initial, pre_prices, post_prices,
                               omega, num_defaults, t, iter, t_iter>>
           ELSE IF ndays < 0
           THEN /\ Raise("ValueError")            \* np.zeros((days, npaths))
                /\ r' = threshold(args.r, args.p)
                /\ days' = ndays
                /\ dt' = <<args.t, ndays>>
                /\ npaths' = NPaths
                /\ npaths_initial' = NPaths
                /\ UNCHANGED <<pre_prices, post_prices, omega, num_defaults,
                               t, iter, t_iter>>
           ELSE /\ pc' = "drift"
                /\ r' = threshold(args.r, args.p)
                /\ days' = ndays
                /\ dt' = <<args.t, ndays>>
                /\ npaths' = NPaths
                /\ npaths_initial' = NPaths
                /\ pre_prices' = np_full(NPaths, 0)
                /\ post_prices' = np_full(NPaths, args.p)
                /\ omega' = np_full(NPaths, 0)
                /\ num_defaults' = 0
                /\ t' = time_grid(args.t, ndays)
                /\ UNCHANGED <<raised, iter, t_iter>>
    /\ UNCHANGED <<args, prob_of_default>>

\* Lines 67-74: the loop test, the kernel, sigma_factor, the drift.
DayDrift ==
    /\ pc = "drift"
    /\ iter < days
    /\ IF iter + 1 \notin DOMAIN t
       THEN /\ Raise("IndexError")                \* t[iter]
            /\ UNCHANGED <<post_prices, t_iter>>
       ELSE IF closed_form_price_raises(args.q)
       THEN /\ Raise("ZeroDivisionError")
            /\ t_iter' = t[iter + 1]
            /\ UNCHANGED post_prices
       ELSE /\ pc' = "vol"
            /\ t_iter' = t[iter + 1]
            /\ post_prices' = drift(post_prices, args.y, dt)
            /\ UNCHANGED raised
    /\ UNCHANGED <<args, r, days, dt, npaths, npaths_initial, pre_prices,
                   omega, num_defaults, t, iter, prob_of_default>>

\* Lines 76-80: the volatility term, the row store, the noise accumulator.
\* One random draw per live path (np.random.randn(npaths, 1)).
DayVolatility ==
    /\ pc = "vol"
    /\ \E vol_rhs \in [1..npaths -> Shocks] :
          IF Len(post_prices) # npaths \/ Len(omega) # npaths
          THEN /\ Raise("ValueError")             \* operands of unequal shape
               /\ UNCHANGED <<pre_prices, post_prices, omega>>
          ELSE LET sf == sigma_factor(args.sigma, t_iter, args.q)
                   lhs == vol_lhs(post_prices, sf, args.p, args.alpha)
                   new == volatility(post_prices, lhs, vol_rhs)
               IN  /\ pc' = "remove"
                   /\ post_prices' = new
                   /\ pre_prices' = new
                   /\ omega' = accumulate(omega, vol_rhs)
                   /\ UNCHANGED raised
    /\ UNCHANGED <<args, r, days, dt, npaths, npaths_initial, num_defaults,
                   t, iter, t_iter, prob_of_default>>

\* Lines 83-92: detection and removal of the defaulted paths, next day.
DayRemove ==
    /\ pc = "remove"
    /\ LET idx == is_defaulted(pre_prices, r)
       IN  IF Cardinality(idx) > 0
           THEN /\ omega' = np_delete(omega, idx)
                /\ pre_prices' = np_delete(pre_prices, idx)
                /\ npaths' = live_paths(npaths, idx)
                /\ num_defaults' = count_defaults(num_defaults, idx)
                /\ post_prices' = np_delete(pre_prices, idx)
           ELSE /\ post_prices' = pre_prices
                /\ UNCHANGED <<omega, pre_prices, npaths, num_defaults>>
    /\ iter' = iter + 1
    /\ pc' = "drift"
    /\ UNCHANGED <<args, raised, r, days, dt, npaths_initial, t, t_iter,
                   prob_of_default>>

\* Lines 94-96: the loop is over, the fraction of defaulted paths is returned.
Return ==
    /\ pc = "drift"
    /\ iter >= days
    /\ prob_of_default' = probability(num_defaults, npaths_initial)
    /\ pc' = "done"
    /\ UNCHANGED <<args, raised, locals>>

Next ==
    \/ Main
    \/ Initialise
    \/ DayDrift
    \/ DayVolatility
    \/ DayRemove
    \/ Return

Spec == Init /\ [][Next]_vars

----------------------------------------------------------------------------
\* Properties

\* The call has set up its arrays and has not failed.
Running == pc \in {"drift", "vol", "remove", "done"}

\* q as the guard of main sees it.
LowKurtosis == FracLeqOne(args.q)

\* Everything but q is as the docstring of q_alpha asks.
OtherArgsValid ==
    /\ args.p > 0
    /\ args.sigma > 0
    /\ args.t > 0
    /\ 0 <= args.r[1]
    /\ args.r[1] <= args.r[2]

\* No day step has begun: the arrays are as the set-up left them.
NothingSimulated ==
    /\ pc \in {"main", "q_alpha", "exit", "error", "drift"}
    /\ iter = 0
    /\ prob_of_default = <<>>
    /\ post_prices \in {<<>>, np_full(NPaths, args.p)}
    /\ omega \in {<<>>, np_full(NPaths, 0)}

\* The default threshold recovery_fraction * initial_price, from the arguments.
Floor == threshold(args.r, args.p)

\* y * dt, the drift of one day.
DayYield == (args.y * dt[1]) \div dt[2]

\* C1: at the start of every day and after every per-day compaction, the
\* price row, the fluctuating prices and the noise accumulators all have
\* npaths entries, and npaths + num_defaults = npaths_initial.
C1_PopulationInvariant ==
    Running =>
        /\ Len(post_prices) = npaths
        /\ Len(pre_prices) = npaths
        /\ Len(omega) = npaths
        /\ npaths + num_defaults = npaths_initial
        /\ npaths_initial = NPaths

\* A compaction has removed one path and left another.
C1_Witness ==
    /\ pc = "drift"
    /\ iter > 0
    /\ num_defaults > 0
    /\ npaths > 0

\* C2: the defaulted-path count stays between 0 and the initial path count
\* at every step, and the returned fraction num_defaults / npaths_initial
\* has 0 <= numerator <= denominator and a positive denominator.
C2_ProbabilityInUnitInterval ==
    /\ 0 <= num_defaults
    /\ num_defaults <= (IF Running THEN npaths_initial ELSE 0)
    /\ pc = "done" =>
        /\ prob_of_default = <<num_defaults, npaths_initial>>
        /\ npaths_initial > 0

\* A run with valid q has returned with some, not all, paths defaulted.
C2_Witness ==
    /\ pc = "done"
    /\ ~LowKurtosis
    /\ 0 < num_defaults
    /\ num_defaults < npaths_initial

\* C3: with kurtosis_q <= 1 the call fails before the simulation starts:
\* no day step is executed, no path state is changed, nothing is returned.
C3_LowKurtosisFailsBeforeSimulation ==
    (LowKurtosis /\ OtherArgsValid) => NothingSimulated

\* C4: with kurtosis_q = 3, sigma <= 0, initial_price <= 0 or
\* horizon_years <= 0 the run ends in an error without completing a day and
\* without returning a probability.
C4_OtherPreconditionsFailImmediately ==
    (/\ ~LowKurtosis
     /\ \/ FracEq(args.q, 3)
        \/ args.sigma <= 0
        \/ args.p <= 0
        \/ args.t <= 0) => NothingSimulated

Degenerate ==
    /\ args.sigma = 0
    /\ args.y >= 0
    /\ args.p > 0
    /\ 0 <= args.r[1]
    /\ args.r[1] <= args.r[2]

\* C6: with sigma = 0, yield >= 0, initial_price > 0 and recovery_fraction
\* in [0, 1], no step of the loop lowers a path's price or removes a path,
\* no price is below the threshold, and the fraction returned is 0.
C6_NoVolatilityNoDefault ==
    [][(Degenerate /\ pc \in {"drift", "vol", "remove"}) =>
          /\ Len(post_prices') = Len(post_prices)
          /\ \A i \in DOMAIN post_prices :
                /\ post_prices'[i] >= post_prices[i]
                /\ ~IntLess(post_prices'[i], Floor)
          /\ num_defaults' = 0
          /\ pc' # "error" => pc' \in {"vol", "remove", "drift", "done"}
          /\ pc' = "done" => prob_of_default' = <<0, npaths_initial>>]_vars

\* A degenerate run with a positive yield has returned.
C6_Witness ==
    /\ pc = "done"
    /\ Degenerate
    /\ args.y > 0
    /\ prob_of_default = <<0, NPaths>>
    /\ \A i \in DOMAIN post_prices : post_prices[i] > args.p

C8_StrictThresholdRemoval ==
    [][/\ Running => (r = Floor /\ r' = r)
       /\ pc = "remove" =>
            LET below == {i \in DOMAIN pre_prices :
                             pre_prices[i] * Floor[2] < Floor[1]}
            IN  /\ num_defaults' = num_defaults + Cardinality(below)
                /\ Len(post_prices') = Len(pre_prices) - Cardinality(below)
                /\ \A j \in DOMAIN post_prices' :
                      post_prices'[j] * Floor[2] >= Floor[1]]_vars

\* After a removal, a live path sits exactly on the threshold.
C8_Witness ==
    /\ pc = "drift"
    /\ iter > 0
    /\ num_defaults > 0
    /\ \E i \in DOMAIN post_prices : post_prices[i] * r[2] = r[1]

\* C9: for horizon_years >= 1 the grid has at least days = 365 *
\* horizon_years entries, its k-th entry is k steps of dt, the day with
\* loop index iter reads entry iter + 1, no read is past the end, and the
\* loop has run days iterations when the call returns.  The grid itself is
\* also examined for every horizon up to MaxHorizon.
C9_TimeGrid ==
    /\ \A h \in 1..MaxHorizon :
          LET g == time_grid(h, DaysPerYear * h)
          IN  /\ Len(g) >= DaysPerYear * h
              /\ \A k \in 1..(DaysPerYear * h) : g[k] = k
    /\ args.t >= 1 =>
        /\ raised # "IndexError"
        /\ Running =>
            /\ days = DaysPerYear * args.t
            /\ dt[1] * DaysPerYear = dt[2]
            /\ Len(t) >= days
            /\ \A k \in 1..days : t[k] = k
        /\ pc \in {"vol", "remove"} => t_iter = iter + 1
        /\ pc = "done" => (iter = days /\ t_iter = days)

\* A run over a horizon of at least a year has returned.
C9_Witness ==
    /\ pc = "done"
    /\ args.t >= 1
    /\ iter = days
    /\ t_iter = DaysPerYear * args.t

\* The inputs C10 assumes.
PositiveInputs ==
    /\ args.p > 0
    /\ args.r[1] >= 0
    /\ 1 + DayYield > 0

\* C10: with initial_price > 0, recovery_fraction >= 0 and 1 + yield * dt
\* > 0, the prices that enter a day are the initial price (day 1) or
\* prices not below the threshold (later days), and the post-drift price
\* that is the base of ** alpha is never negative.
C10_PowerBaseNotNegative ==
    [][(PositiveInputs /\ pc = "drift" /\ pc' = "vol") =>
          \A i \in DOMAIN post_prices :
             /\ iter = 0 => post_prices[i] = args.p
             /\ iter > 0 => ~IntLess(post_prices[i], Floor)
             /\ post_prices'[i] = (1 + DayYield) * post_prices[i]
             /\ post_prices'[i] >= 0]_vars

\* A later day's power is being taken after a path has been removed.
C10_Witness ==
    /\ pc = "vol"
    /\ PositiveInputs
    /\ iter > 0
    /\ num_defaults > 0
    /\ npaths > 0
====
